---- MODULE Spec2Model ----
(***************************************************************************)
(* State-machine model of the CSV reader application (src/src/main.rs).    *)
(* The state is the MyApp struct; every action is one frame of             *)
(* MyApp::update in which the user clicks one button or edits one text     *)
(* field.  Strings are sequences of one-character strings, Option<T> is a  *)
(* sequence of length 0 (None) or 1 (Some).                                *)
(***************************************************************************)
EXTENDS Integers, Sequences, FiniteSets, TLC

VARIABLES csv_header, csv_data, current_page, rows_per_page, search_query,
          search_header, search_results, row_number_input, selected_row,
          visible_columns, show_column_controls,
          selected_by,   \* ghost: the row number whose Go produced selected_row (0: none)
          last_event     \* ghost: the button/edit of the latest frame and what it wrote

vars == <<csv_header, csv_data, current_page, rows_per_page, search_query,
          search_header, search_results, row_number_input, selected_row,
          visible_columns, show_column_controls, selected_by, last_event>>

(***************************************************************************)
(* Bounds and program constants                                            *)
(***************************************************************************)
LongRows == 101          \* data rows of the long file (two pages: 100 + 1)
WideCols == 257          \* columns of the wide file (one more than a u8 can index)
MaxToggleCol == 1        \* per-column checkboxes the model clicks: columns 0 .. MaxToggleCol-1
MaxPureRows == 5         \* longest table of the pagination specification
MaxPageSize == 3         \* largest page size of the pagination specification
ROWS_PER_PAGE == 100     \* main(): rows_per_page: 100
U8_RANGE == 256          \* search_header: u8, idx as u8

(***************************************************************************)
(* Option and small helpers                                                *)
(***************************************************************************)
None == <<>>
Some(v) == <<v>>
is_some(o) == Len(o) = 1
is_none(o) == Len(o) = 0
unwrap(o) == o[1]

Min(a, b) == IF a <= b THEN a ELSE b

Str1(c) == <<c>>

(***************************************************************************)
(* String functions of the standard library, on sequences of characters    *)
(***************************************************************************)
char_to_lowercase(c) ==
    CASE c = "A" -> "a"
      [] c = "B" -> "b"
      [] c = "X" -> "x"
      [] c = "Y" -> "y"
      [] OTHER -> c

to_lowercase(s) == [i \in 1..Len(s) |-> char_to_lowercase(s[i])]

contains(hay, needle) ==
    \E off \in 0..(Len(hay) - Len(needle)) :
        \A j \in 1..Len(needle) : hay[off + j] = needle[j]

is_whitespace(c) == c = " "

RECURSIVE trim_start(_)
trim_start(s) ==
    IF s # <<>> /\ is_whitespace(Head(s)) THEN trim_start(Tail(s)) ELSE s

RECURSIVE trim_end(_)
trim_end(s) ==
    IF s # <<>> /\ is_whitespace(s[Len(s)])
    THEN trim_end(SubSeq(s, 1, Len(s) - 1)) ELSE s

trim(s) == trim_end(trim_start(s))

is_digit(c) == c \in {"0", "1", "2", "3", "4", "5", "6", "7", "8", "9"}

digit_value(c) ==
    CASE c = "0" -> 0 [] c = "1" -> 1 [] c = "2" -> 2 [] c = "3" -> 3
      [] c = "4" -> 4 [] c = "5" -> 5 [] c = "6" -> 6 [] c = "7" -> 7
      [] c = "8" -> 8 [] c = "9" -> 9

RECURSIVE digits_value(_)
digits_value(s) ==
    IF s = <<>> THEN 0
    ELSE 10 * digits_value(SubSeq(s, 1, Len(s) - 1)) + digit_value(s[Len(s)])

\* str::parse for an unsigned integer: an optional '+', then one or more
\* digits; anything else (empty, '-', letters, blanks) is Err.  The texts of
\* the model have at most three digits, far below usize::MAX.
parse_unsigned(s) ==
    LET body == IF s # <<>> /\ Head(s) = "+" THEN Tail(s) ELSE s
    IN  IF body # <<>> /\ \A i \in 1..Len(body) : is_digit(body[i])
        THEN Some(digits_value(body))
        ELSE None

parse_usize(s) == parse_unsigned(s)

\* parse::<u8>: as parse_unsigned, and Err when the value exceeds 255
parse_u8(s) ==
    LET r == parse_unsigned(s)
    IN  IF is_some(r) /\ unwrap(r) < U8_RANGE THEN r ELSE None

\* idx as u8
as_u8(n) == n % U8_RANGE

(***************************************************************************)
(* Files the user can pick.  A file is missing, or holds a sequence of     *)
(* records as the csv reader tokenises it (first record = header).         *)
(***************************************************************************)
Cell(c) == Str1(c)

OnDisk(records) == [found |-> TRUE, records |-> records]

SmallFile ==                    \* the third data row repeats the header
    OnDisk(<< <<Cell("a"), Cell("b")>>,
              <<Cell("x"), <<"o", "y">> >>,
              <<Cell("Y"), Cell("x")>>,
              <<Cell("a"), Cell("b")>> >>)

HeaderOnlyFile == OnDisk(<< <<Cell("a"), Cell("b")>> >>)

EmptyFile == OnDisk(<<>>)

LongFile ==
    OnDisk(<< <<Cell("a")>> >> \o
           [i \in 1..LongRows |-> <<Cell(IF i % 2 = 0 THEN "x" ELSE "Y")>>])

\* one data row whose only "y" sits at column index 256
WideFile ==
    OnDisk(<< [i \in 1..WideCols |-> Cell("a")],
              [i \in 1..WideCols |-> Cell(IF i = U8_RANGE + 1 THEN "y" ELSE "x")] >>)

RaggedFile ==                   \* second data row has one field too few
    OnDisk(<< <<Cell("a"), Cell("b")>>,
              <<Cell("x"), Cell("y")>>,
              <<Cell("y")>> >>)

MissingFile == [found |-> FALSE, records |-> <<>>]

Files == {SmallFile, HeaderOnlyFile, EmptyFile, LongFile, WideFile, RaggedFile, MissingFile}

\* texts the user types into the three text fields
Queries == { <<"Y">>, <<"x">> }
ColumnTexts == { <<"1">>, <<"2", "5", "6">>, <<"b">> }
RowTexts == { <<"a">>, <<"-", "1">>, <<"0">>, <<"1">>, <<"+", "2">>, <<" ", "4", " ">> }

(***************************************************************************)
(* Free functions                                                          *)
(***************************************************************************)
\* Result: Some(<<header, records>>) for Ok, None for Err.  Reader::from_path
\* fails on a missing file; the reader is not flexible, so a record whose
\* field count differs from the first record's is an error (result?).
read_csv_with_header(file) ==
    LET recs == file.records
    IN  IF ~file.found THEN None
        ELSE IF recs = <<>> THEN Some(<< <<>>, <<>> >>)
        ELSE IF \E i \in 1..Len(recs) : Len(recs[i]) # Len(recs[1]) THEN None
        ELSE Some(<<Head(recs), Tail(recs)>>)

\* mutant: only the rows of the first page are written
save_csv_FirstPage(header, data) == <<header>> \o SubSeq(data, 1, Min(ROWS_PER_PAGE, Len(data)))

\* the records written, in order: the header, then every data row
save_csv(header, data) == <<header>> \o data

(***************************************************************************)
(* impl MyApp                                                              *)
(***************************************************************************)
\* mutant: the division rounds down
total_pages_RoundsDown ==
    IF csv_data = <<>> THEN 1
    ELSE IF Len(csv_data) < rows_per_page THEN 1
    ELSE Len(csv_data) \div rows_per_page

total_pages ==
    IF csv_data = <<>> THEN 1
    ELSE (Len(csv_data) + rows_per_page - 1) \div rows_per_page

row_matches(row, query) ==
    \E i \in 1..Len(row) :
        as_u8(i - 1) = search_header /\ contains(to_lowercase(row[i]), query)

perform_search ==
    LET query == to_lowercase(search_query)
    IN  SelectSeq(csv_data, LAMBDA row : row_matches(row, query))

\* mutant: the range test is off by one, the last data row is not found
get_row_by_number_ShortRange(row_num) ==
    IF row_num = 1 THEN Some(csv_header)
    ELSE IF row_num > 1 /\ row_num - 1 < Len(csv_data) THEN Some(csv_data[row_num - 1])
    ELSE None

get_row_by_number(row_num) ==
    IF row_num = 1 THEN Some(csv_header)
    ELSE IF row_num > 1 /\ row_num - 2 < Len(csv_data) THEN Some(csv_data[row_num - 1])
    ELSE None

visible_indices(row) ==
    SelectSeq([i \in 1..Len(row) |-> i],
              LAMBDA i : i - 1 < Len(visible_columns) /\ visible_columns[i])

\* mutant: as many leading cells as there are visible columns
filter_visible_columns_Leading(row) ==
    SubSeq(row, 1, Cardinality({i \in 1..Len(visible_columns) : visible_columns[i]}))

filter_visible_columns(row) ==
    LET idx == visible_indices(row) IN [k \in 1..Len(idx) |-> row[idx[k]]]

get_visible_headers == filter_visible_columns(csv_header)

\* mutant: the mask of the previous table is kept
initialize_visible_columns_Stale(header) == visible_columns

\* called after csv_header is assigned; header is the new csv_header
initialize_visible_columns(header) == [i \in 1..Len(header) |-> TRUE]

toggle_all_columns(visible) == [i \in 1..Len(csv_header) |-> visible]

visible_column_count == Cardinality({i \in 1..Len(visible_columns) : visible_columns[i]})

(***************************************************************************)
(* View derivation of MyApp::update                                        *)
(***************************************************************************)
page_start(page) == page * rows_per_page
page_end(page) == Min((page + 1) * rows_per_page, Len(csv_data))

\* csv_data[start..end] of page `page` (0-based, end exclusive)
page_rows(page) == SubSeq(csv_data, page_start(page) + 1, page_end(page))

\* mutant: the selected row is not compared with the header
rows_to_display_NoHeaderTest ==
    IF csv_header # <<>> THEN
        IF is_some(selected_row) THEN <<csv_header, unwrap(selected_row)>>
        ELSE IF is_some(search_results) THEN <<csv_header>> \o unwrap(search_results)
        ELSE <<csv_header>> \o page_rows(current_page)
    ELSE <<>>

rows_to_display ==
    IF csv_header # <<>> THEN
        IF is_some(selected_row) THEN
            IF unwrap(selected_row) # csv_header
            THEN <<csv_header, unwrap(selected_row)>>
            ELSE <<csv_header>>
        ELSE IF is_some(search_results) THEN <<csv_header>> \o unwrap(search_results)
        ELSE <<csv_header>> \o page_rows(current_page)
    ELSE <<>>

\* rows of the table body
body_rows ==
    IF Len(rows_to_display) > 1 /\ rows_to_display[1] = csv_header
    THEN Tail(rows_to_display) ELSE rows_to_display

\* what the table widget shows: None when nothing or the placeholder is drawn,
\* else the visible header cells and the masked body rows
rendered_table ==
    IF rows_to_display # <<>> /\ visible_column_count > 0 /\ Len(get_visible_headers) > 0
    THEN Some(<<get_visible_headers,
                [k \in 1..Len(body_rows) |-> filter_visible_columns(body_rows[k])]>>)
    ELSE None

placeholder_shown == rows_to_display # <<>> /\ visible_column_count = 0

(***************************************************************************)
(* Construction (main) and the events of MyApp::update                     *)
(***************************************************************************)
Event(name) == [name |-> name, out |-> <<>>]

Init ==
    /\ csv_header = <<>>
    /\ csv_data = <<>>
    /\ current_page = 0
    /\ rows_per_page = ROWS_PER_PAGE
    /\ search_query = <<>>
    /\ search_header = 0
    /\ search_results = None
    /\ row_number_input = <<>>
    /\ selected_row = None
    /\ visible_columns = <<>>
    /\ show_column_controls = FALSE
    /\ selected_by = 0
    /\ last_event = Event("Init")

\* mutant: the table is emptied before the file is read
LoadCSV_FailureClearsTable(file) ==
    LET r == read_csv_with_header(file)
    IN  IF is_some(r) THEN
            /\ csv_header' = unwrap(r)[1]
            /\ csv_data' = unwrap(r)[2]
            /\ current_page' = 0
            /\ search_query' = <<>>
            /\ search_results' = None
            /\ row_number_input' = <<>>
            /\ selected_row' = None
            /\ visible_columns' = initialize_visible_columns(unwrap(r)[1])
            /\ selected_by' = 0
            /\ last_event' = Event("LoadOk")
            /\ UNCHANGED <<rows_per_page, search_header, show_column_controls>>
        ELSE
            /\ csv_header' = <<>>
            /\ csv_data' = <<>>
            /\ visible_columns' = <<>>
            /\ last_event' = Event("LoadFailed")
            /\ UNCHANGED <<current_page, rows_per_page,
                           search_query, search_header, search_results,
                           row_number_input, selected_row,
                           show_column_controls, selected_by>>

\* mutant: a successful load keeps the search results and the selection
LoadCSV_KeepsViewRows(file) ==
    LET r == read_csv_with_header(file)
    IN  IF is_some(r) THEN
            /\ csv_header' = unwrap(r)[1]
            /\ csv_data' = unwrap(r)[2]
            /\ current_page' = 0
            /\ search_query' = <<>>
            /\ row_number_input' = <<>>
            /\ visible_columns' = initialize_visible_columns(unwrap(r)[1])
            /\ last_event' = Event("LoadOk")
            /\ UNCHANGED <<rows_per_page, search_header, search_results,
                           selected_row, selected_by, show_column_controls>>
        ELSE
            /\ last_event' = Event("LoadFailed")
            /\ UNCHANGED <<csv_header, csv_data, current_page, rows_per_page,
                           search_query, search_header, search_results,
                           row_number_input, selected_row, visible_columns,
                           show_column_controls, selected_by>>

\* mutant: a successful load does not reset current_page
LoadCSV_KeepsPage(file) ==
    LET r == read_csv_with_header(file)
    IN  IF is_some(r) THEN
            /\ csv_header' = unwrap(r)[1]
            /\ csv_data' = unwrap(r)[2]
            /\ search_query' = <<>>
            /\ search_results' = None
            /\ row_number_input' = <<>>
            /\ selected_row' = None
            /\ visible_columns' = initialize_visible_columns(unwrap(r)[1])
            /\ selected_by' = 0
            /\ last_event' = Event("LoadOk")
            /\ UNCHANGED <<current_page, rows_per_page, search_header,
                           show_column_controls>>
        ELSE
            /\ last_event' = Event("LoadFailed")
            /\ UNCHANGED <<csv_header, csv_data, current_page, rows_per_page,
                           search_query, search_header, search_results,
                           row_number_input, selected_row, visible_columns,
                           show_column_controls, selected_by>>

\* "Load CSV" clicked and a file picked
LoadCSV(file) ==
    LET r == read_csv_with_header(file)
    IN  IF is_some(r) THEN
            /\ csv_header' = unwrap(r)[1]
            /\ csv_data' = unwrap(r)[2]
            /\ current_page' = 0
            /\ search_query' = <<>>
            /\ search_results' = None
            /\ row_number_input' = <<>>
            /\ selected_row' = None
            /\ visible_columns' = initialize_visible_columns(unwrap(r)[1])
            /\ selected_by' = 0
            /\ last_event' = Event("LoadOk")
            /\ UNCHANGED <<rows_per_page, search_header, show_column_controls>>
        ELSE
            /\ last_event' = Event("LoadFailed")
            /\ UNCHANGED <<csv_header, csv_data, current_page, rows_per_page,
                           search_query, search_header, search_results,
                           row_number_input, selected_row, visible_columns,
                           show_column_controls, selected_by>>

\* "Load CSV" or "Save CSV" clicked and the dialog dismissed
DialogCancelled ==
    /\ last_event' = Event("DialogCancelled")
    /\ UNCHANGED <<csv_header, csv_data, current_page, rows_per_page,
                   search_query, search_header, search_results,
                   row_number_input, selected_row, visible_columns,
                   show_column_controls, selected_by>>

\* "Save CSV" clicked and a path chosen
SaveCSV ==
    /\ last_event' = [name |-> "Save", out |-> save_csv(csv_header, csv_data)]
    /\ UNCHANGED <<csv_header, csv_data, current_page, rows_per_page,
                   search_query, search_header, search_results,
                   row_number_input, selected_row, visible_columns,
                   show_column_controls, selected_by>>

\* "Save CSV" clicked, a path chosen and the write fails (the error is printed)
SaveFailed ==
    /\ last_event' = Event("SaveFailed")
    /\ UNCHANGED <<csv_header, csv_data, current_page, rows_per_page,
                   search_query, search_header, search_results,
                   row_number_input, selected_row, visible_columns,
                   show_column_controls, selected_by>>

\* "Show/Hide Column Controls" clicked
ToggleColumnControls ==
    /\ csv_header # <<>>
    /\ show_column_controls' = ~show_column_controls
    /\ last_event' = Event("ToggleColumnControls")
    /\ UNCHANGED <<csv_header, csv_data, current_page, rows_per_page,
                   search_query, search_header, search_results,
                   row_number_input, selected_row, visible_columns, selected_by>>

\* "Show All" (visible = TRUE) or "Hide All" (visible = FALSE) clicked
ToggleAll(visible) ==
    /\ show_column_controls /\ csv_header # <<>>
    /\ visible_columns' = toggle_all_columns(visible)
    /\ last_event' = Event(IF visible THEN "ShowAll" ELSE "HideAll")
    /\ UNCHANGED <<csv_header, csv_data, current_page, rows_per_page,
                   search_query, search_header, search_results,
                   row_number_input, selected_row, show_column_controls, selected_by>>

\* the checkbox of column idx (0-based) clicked
ToggleColumn(idx) ==
    /\ show_column_controls /\ csv_header # <<>>
    /\ idx < Len(csv_header) /\ idx < Len(visible_columns)
    /\ visible_columns' = [visible_columns EXCEPT ![idx + 1] = ~@]
    /\ last_event' = Event("ToggleColumn")
    /\ UNCHANGED <<csv_header, csv_data, current_page, rows_per_page,
                   search_query, search_header, search_results,
                   row_number_input, selected_row, show_column_controls, selected_by>>

\* the search text field edited to text
EditSearchQuery(text) ==
    /\ search_query' = text
    /\ last_event' = Event("EditSearchQuery")
    /\ UNCHANGED <<csv_header, csv_data, current_page, rows_per_page,
                   search_header, search_results, row_number_input,
                   selected_row, visible_columns, show_column_controls, selected_by>>

\* the column index text field edited to text, parsed in the same frame
EditColumnIndex(text) ==
    /\ search_header' = (IF is_some(parse_u8(text)) THEN unwrap(parse_u8(text)) ELSE 0)
    /\ last_event' = Event("EditColumnIndex")
    /\ UNCHANGED <<csv_header, csv_data, current_page, rows_per_page,
                   search_query, search_results, row_number_input,
                   selected_row, visible_columns, show_column_controls, selected_by>>

\* mutant: Search goes back to the first page
Search_ResetsPage ==
    /\ search_results' = Some(perform_search)
    /\ selected_row' = None
    /\ selected_by' = 0
    /\ current_page' = 0
    /\ last_event' = Event("Search")
    /\ UNCHANGED <<csv_header, csv_data, rows_per_page,
                   search_query, search_header, row_number_input,
                   visible_columns, show_column_controls>>

\* mutant: Search does not clear the selection
Search_KeepsSelection ==
    /\ search_results' = Some(perform_search)
    /\ last_event' = Event("Search")
    /\ UNCHANGED <<csv_header, csv_data, current_page, rows_per_page,
                   search_query, search_header, row_number_input, selected_row,
                   visible_columns, show_column_controls, selected_by>>

\* "Search" clicked
Search ==
    /\ search_results' = Some(perform_search)
    /\ selected_row' = None
    /\ selected_by' = 0
    /\ last_event' = Event("Search")
    /\ UNCHANGED <<csv_header, csv_data, current_page, rows_per_page,
                   search_query, search_header, row_number_input,
                   visible_columns, show_column_controls>>

\* mutant: Clear Search empties the query text only
ClearSearch_KeepsResults ==
    /\ search_query' = <<>>
    /\ last_event' = Event("ClearSearch")
    /\ UNCHANGED <<csv_header, csv_data, current_page, rows_per_page,
                   search_header, search_results, row_number_input, selected_row,
                   visible_columns, show_column_controls, selected_by>>

\* "Clear Search" clicked
ClearSearch ==
    /\ search_query' = <<>>
    /\ search_results' = None
    /\ last_event' = Event("ClearSearch")
    /\ UNCHANGED <<csv_header, csv_data, current_page, rows_per_page,
                   search_header, row_number_input, selected_row,
                   visible_columns, show_column_controls, selected_by>>

\* the row number text field edited to text
EditRowNumber(text) ==
    /\ row_number_input' = text
    /\ last_event' = Event("EditRowNumber")
    /\ UNCHANGED <<csv_header, csv_data, current_page, rows_per_page,
                   search_query, search_header, search_results,
                   selected_row, visible_columns, show_column_controls, selected_by>>

\* mutant: text that does not parse falls back to "no selection"
Go_UnparsedClearsSelection ==
    LET parsed == parse_usize(trim(row_number_input))
    IN  IF is_some(parsed) THEN
            LET row_num == unwrap(parsed)
                found == IF row_num = 1 THEN Some(csv_header)
                         ELSE get_row_by_number(row_num)
            IN  /\ selected_row' = found
                /\ selected_by' = (IF is_some(found) THEN row_num ELSE 0)
                /\ search_results' = None
                /\ last_event' = Event("Go")
                /\ UNCHANGED <<csv_header, csv_data, current_page, rows_per_page,
                               search_query, search_header, row_number_input,
                               visible_columns, show_column_controls>>
        ELSE
            /\ selected_row' = None
            /\ selected_by' = 0
            /\ last_event' = Event("Go")
            /\ UNCHANGED <<csv_header, csv_data, current_page, rows_per_page,
                           search_query, search_header, search_results,
                           row_number_input, visible_columns, show_column_controls>>

\* mutant: a parsed Go does not clear the search results
Go_KeepsResults ==
    LET parsed == parse_usize(trim(row_number_input))
    IN  IF is_some(parsed) THEN
            LET row_num == unwrap(parsed)
                found == IF row_num = 1 THEN Some(csv_header)
                         ELSE get_row_by_number(row_num)
            IN  /\ selected_row' = found
                /\ selected_by' = (IF is_some(found) THEN row_num ELSE 0)
                /\ last_event' = Event("Go")
                /\ UNCHANGED <<csv_header, csv_data, current_page, rows_per_page,
                               search_query, search_header, search_results,
                               row_number_input, visible_columns, show_column_controls>>
        ELSE
            /\ last_event' = Event("Go")
            /\ UNCHANGED <<csv_header, csv_data, current_page, rows_per_page,
                           search_query, search_header, search_results,
                           row_number_input, selected_row, visible_columns,
                           show_column_controls, selected_by>>

\* "Go" clicked
Go ==
    LET parsed == parse_usize(trim(row_number_input))
    IN  IF is_some(parsed) THEN
            LET row_num == unwrap(parsed)
                found == IF row_num = 1 THEN Some(csv_header)
                         ELSE get_row_by_number(row_num)
            IN  /\ selected_row' = found
                /\ selected_by' = (IF is_some(found) THEN row_num ELSE 0)
                /\ search_results' = None
                /\ last_event' = Event("Go")
                /\ UNCHANGED <<csv_header, csv_data, current_page, rows_per_page,
                               search_query, search_header, row_number_input,
                               visible_columns, show_column_controls>>
        ELSE
            /\ last_event' = Event("Go")
            /\ UNCHANGED <<csv_header, csv_data, current_page, rows_per_page,
                           search_query, search_header, search_results,
                           row_number_input, selected_row, visible_columns,
                           show_column_controls, selected_by>>

\* "Previous" clicked (the button exists only in the paged view)
Previous ==
    /\ is_none(search_results) /\ is_none(selected_row)
    /\ current_page' = (IF current_page > 0 THEN current_page - 1 ELSE current_page)
    /\ last_event' = Event("Previous")
    /\ UNCHANGED <<csv_header, csv_data, rows_per_page, search_query,
                   search_header, search_results, row_number_input,
                   selected_row, visible_columns, show_column_controls, selected_by>>

\* "Next" clicked (the button exists only in the paged view)
NextPage ==
    /\ is_none(search_results) /\ is_none(selected_row)
    /\ current_page' = (IF current_page + 1 < total_pages THEN current_page + 1
                        ELSE current_page)
    /\ last_event' = Event("Next")
    /\ UNCHANGED <<csv_header, csv_data, rows_per_page, search_query,
                   search_header, search_results, row_number_input,
                   selected_row, visible_columns, show_column_controls, selected_by>>

Next ==
    \/ \E file \in Files : LoadCSV(file)
    \/ DialogCancelled
    \/ SaveCSV
    \/ SaveFailed
    \/ ToggleColumnControls
    \/ \E visible \in BOOLEAN : ToggleAll(visible)
    \/ \E idx \in 0..(MaxToggleCol - 1) : ToggleColumn(idx)
    \/ \E text \in Queries : EditSearchQuery(text)
    \/ \E text \in ColumnTexts : EditColumnIndex(text)
    \/ Search
    \/ ClearSearch
    \/ \E text \in RowTexts : EditRowNumber(text)
    \/ Go
    \/ Previous
    \/ NextPage

Spec == Init /\ [][Next]_vars

(***************************************************************************)
(* Pagination for every table and page size: the table and the page size   *)
(* are the inputs of total_pages and of the page slice; Previous and Next  *)
(* walk the pages.                                                         *)
(***************************************************************************)
PureRows == { <<Cell("x")>>, <<Cell("y")>> }

PureTables == UNION { [1..n -> PureRows] : n \in 0..MaxPureRows }

PageInit ==
    /\ csv_header = <<Cell("a")>>
    /\ csv_data \in PureTables
    /\ current_page = 0
    /\ rows_per_page \in 1..MaxPageSize
    /\ search_query = <<>>
    /\ search_header = 0
    /\ search_results = None
    /\ row_number_input = <<>>
    /\ selected_row = None
    /\ visible_columns = <<TRUE>>
    /\ show_column_controls = FALSE
    /\ selected_by = 0
    /\ last_event = Event("Init")

PageNext == Previous \/ NextPage

PageSpec == PageInit /\ [][PageNext]_vars

(***************************************************************************)
(* Properties                                                              *)
(***************************************************************************)
GoText == trim(row_number_input)
GoParsed == is_some(parse_usize(GoText))
GoNumber == unwrap(parse_usize(GoText))

\* C1: search results and a selected row are never both present.
C1_SearchSelectionExclusive == ~(is_some(search_results) /\ is_some(selected_row))

C1_Witness ==
    /\ last_event.name = "Go"
    /\ GoParsed
    /\ is_some(selected_row)
    /\ search_query # <<>>

\* C2: the page index stays within 0 .. total_pages - 1, so the slice bounds
\* of the paged view are ordered; Previous at page 0 and Next at the last
\* page leave the page index unchanged.
C2_PageInRange ==
    /\ 0 <= current_page
    /\ current_page <= total_pages - 1
    /\ page_start(current_page) <= page_end(current_page)

C2_BoundaryNoOp ==
    /\ (last_event'.name = "Previous" /\ current_page = 0) => current_page' = 0
    /\ (last_event'.name = "Next" /\ current_page = total_pages - 1)
          => current_page' = current_page

C2_PageIndexClamped == []C2_PageInRange /\ [][C2_BoundaryNoOp]_vars

C2_Witness ==
    /\ last_event.name = "Next"
    /\ current_page > 0
    /\ current_page = total_pages - 1

\* C3: after a successful Load every view field is at its default: page 0,
\* empty search text, search column index 0, no search results, no selected
\* row, every column visible.
C3_LoadResetsView ==
    last_event.name = "LoadOk" =>
        /\ current_page = 0
        /\ search_query = <<>>
        /\ search_header = 0
        /\ is_none(search_results)
        /\ is_none(selected_row)
        /\ Len(visible_columns) = Len(csv_header)
        /\ \A i \in 1..Len(visible_columns) : visible_columns[i]

\* the paged view: the header followed by the data rows of the current page
PagedView ==
    <<csv_header>> \o
    [k \in 1..(Min((current_page + 1) * rows_per_page, Len(csv_data))
               - current_page * rows_per_page)
        |-> csv_data[current_page * rows_per_page + k]]

\* C4 (as stated): after Clear Search with a loaded table, the search results
\* are absent, the query text is empty and the displayed set is the paged view.
C4_ClearSearchShowsPage ==
    (last_event.name = "ClearSearch" /\ csv_header # <<>>) =>
        /\ is_none(search_results)
        /\ search_query = <<>>
        /\ rows_to_display = PagedView

\* C4 (amended): after Clear Search with a loaded table, the search results
\* are absent and the query text is empty; the selection is left as it was,
\* and the displayed set is the paged view when no row is selected.
C4_ClearSearchState ==
    (last_event.name = "ClearSearch" /\ csv_header # <<>>) =>
        /\ is_none(search_results)
        /\ search_query = <<>>
        /\ is_none(selected_row) => rows_to_display = PagedView

C4_ClearSearchKeepsSelection ==
    last_event'.name = "ClearSearch" => selected_row' = selected_row

C4_ClearSearchAmended ==
    []C4_ClearSearchState /\ [][C4_ClearSearchKeepsSelection]_vars

C4_Witness ==
    /\ last_event.name = "ClearSearch"
    /\ csv_header # <<>>
    /\ is_none(selected_row)
    /\ current_page = 1
    /\ rows_to_display = <<csv_header, csv_data[Len(csv_data)]>>

\* C5 (as stated): after Go with text that does not parse as a non-negative
\* integer no row is selected.
C5_UnparsedGoClearsSelection ==
    (last_event.name = "Go" /\ ~GoParsed) => is_none(selected_row)

\* C5 (amended): Go with text that does not parse as a non-negative integer
\* leaves the selection as it was before the event.
C5_UnparsedGoKeepsSelection ==
    [][(last_event'.name = "Go" /\ ~GoParsed) => selected_row' = selected_row]_vars

C5_Witness ==
    /\ last_event.name = "Go"
    /\ ~GoParsed
    /\ is_some(selected_row)

\* C6 (as stated): after every Go, for any text, the search results are absent.
C6_GoClearsResults == last_event.name = "Go" => is_none(search_results)

\* C6 (amended): after a Go whose text parses as a non-negative integer the
\* search results are absent; a Go whose text does not parse leaves them as
\* they were.
C6_ParsedGoClearsResultsState ==
    (last_event.name = "Go" /\ GoParsed) => is_none(search_results)

C6_UnparsedGoKeepsResults ==
    (last_event'.name = "Go" /\ ~GoParsed) => search_results' = search_results

C6_ParsedGoClearsResults ==
    []C6_ParsedGoClearsResultsState /\ [][C6_UnparsedGoKeepsResults]_vars

C6_Witness ==
    /\ last_event.name = "Go"
    /\ GoParsed
    /\ is_none(search_results)
    /\ is_none(selected_row)
    /\ search_query # <<>>

\* the row that row number n denotes (1: the header, n >= 2: data row n - 2)
RowOfNumber(n) == IF n = 1 THEN csv_header ELSE csv_data[n - 1]

\* C7 (as stated): with a loaded table, whenever a row is selected the
\* displayed set is [header, selected row], and it is the single selected row
\* exactly when the selection was made with row number 1.
C7_HeaderOmittedOnlyForRowOne ==
    (csv_header # <<>> /\ is_some(selected_row)) =>
        rows_to_display = IF selected_by = 1
                          THEN <<unwrap(selected_row)>>
                          ELSE <<csv_header, unwrap(selected_row)>>

\* C7 (amended): with a loaded table, whenever a row is selected by row
\* number n the displayed set is [header, row n] when the cells of row n
\* differ from the header's, and [header] alone when they equal the header's:
\* for n = 1 always, and for a data row that repeats the header.
C7_HeaderOmittedWhenRowEqualsHeader ==
    (csv_header # <<>> /\ is_some(selected_row)) =>
        /\ selected_by >= 1
        /\ selected_by <= Len(csv_data) + 1
        /\ unwrap(selected_row) = RowOfNumber(selected_by)
        /\ rows_to_display = IF RowOfNumber(selected_by) = csv_header
                             THEN <<csv_header>>
                             ELSE <<csv_header, RowOfNumber(selected_by)>>

C7_Witness ==
    /\ csv_header # <<>>
    /\ is_some(selected_row)
    /\ selected_by >= 2
    /\ unwrap(selected_row) = csv_header
    /\ rows_to_display = <<csv_header>>

\* C8: get_row_by_number(1) is the header, get_row_by_number(N) for
\* 2 <= N <= rows + 1 is data row N - 2, and every other N is not found,
\* also on an empty table; Go selects accordingly.
C8_Expected(n) ==
    IF n = 1 THEN Some(csv_header)
    ELSE IF 2 <= n /\ n <= Len(csv_data) + 1 THEN Some(csv_data[(n - 2) + 1])
    ELSE None

C8_RowLookup ==
    /\ \A n \in 0..(Len(csv_data) + 3) : get_row_by_number(n) = C8_Expected(n)
    /\ (last_event.name = "Go" /\ GoParsed) => selected_row = C8_Expected(GoNumber)

C8_Witness ==
    /\ last_event.name = "Go"
    /\ GoParsed
    /\ Len(csv_data) >= 2
    /\ GoNumber = Len(csv_data) + 1
    /\ selected_row = Some(csv_data[Len(csv_data)])

\* C9: a column-scoped search with column index c keeps a data row if and
\* only if the row has a cell at index c and that cell, lower-cased, contains
\* the lower-cased query; no cell at another index makes the row match.
C9_CellMatches(row) ==
    /\ search_header < Len(row)
    /\ contains(to_lowercase(row[search_header + 1]), to_lowercase(search_query))

C9_SearchOnlyConfiguredColumn ==
    last_event.name = "Search" =>
        search_results = Some(SelectSeq(csv_data, C9_CellMatches))

\* C10: total_pages = max(1, ceil(rows / P)), and the page slices of pages
\* 0 .. total_pages - 1, concatenated in order, are exactly the data rows.
C10_Ceil(n, d) == CHOOSE k \in 0..n : k * d >= n /\ (k = 0 \/ (k - 1) * d < n)

RECURSIVE C10_ConcatPages(_)
C10_ConcatPages(page) ==
    IF page >= total_pages THEN <<>>
    ELSE page_rows(page) \o C10_ConcatPages(page + 1)

C10_PagesPartitionRows ==
    /\ rows_per_page >= 1
    /\ total_pages = (IF C10_Ceil(Len(csv_data), rows_per_page) >= 1
                      THEN C10_Ceil(Len(csv_data), rows_per_page) ELSE 1)
    /\ C10_ConcatPages(0) = csv_data
    /\ rows_to_display = <<csv_header>> \o page_rows(current_page)

C10_Witness ==
    /\ last_event.name = "Next"
    /\ rows_per_page = 2
    /\ Len(csv_data) = 5
    /\ current_page = 2
    /\ rows_to_display = <<csv_header, csv_data[5]>>

\* the fields of MyApp (the state without the ghost variables)
AppState ==
    <<csv_header, csv_data, current_page, rows_per_page, search_query,
      search_header, search_results, row_number_input, selected_row,
      visible_columns, show_column_controls>>

\* C11: a Load that fails (parse error or missing file) leaves the whole
\* prior state unchanged: header, data rows, page index, search text, search
\* results, selection and visibility mask are as before the event.
C11_FailedLoadStep ==
    last_event'.name = "LoadFailed" =>
        /\ csv_header' = csv_header
        /\ csv_data' = csv_data
        /\ current_page' = current_page
        /\ search_query' = search_query
        /\ search_header' = search_header
        /\ search_results' = search_results
        /\ row_number_input' = row_number_input
        /\ selected_row' = selected_row
        /\ visible_columns' = visible_columns
        /\ AppState' = AppState

C11_FailedLoadKeepsState == [][C11_FailedLoadStep]_vars

C11_Witness ==
    /\ last_event.name = "LoadFailed"
    /\ csv_data # <<>>
    /\ current_page = 1
    /\ search_query # <<>>
    /\ row_number_input # <<>>
    /\ \E i \in 1..Len(visible_columns) : ~visible_columns[i]

\* C12: the visibility mask always has one flag per header column, it is
\* all-true right after every successful Load, and Show All, Hide All and the
\* column checkboxes never change its length.
C12_MaskMatchesHeader ==
    /\ Len(visible_columns) = Len(csv_header)
    /\ last_event.name = "LoadOk" =>
           \A i \in 1..Len(visible_columns) : visible_columns[i]

C12_TogglesKeepLength ==
    last_event'.name \in {"ShowAll", "HideAll", "ToggleColumn"} =>
        Len(visible_columns') = Len(visible_columns)

C12_MaskLength == []C12_MaskMatchesHeader /\ [][C12_TogglesKeepLength]_vars

C12_Witness ==
    /\ last_event.name = "LoadOk"
    /\ Len(csv_header) = 1
    /\ visible_columns = <<TRUE>>
    /\ show_column_controls

\* the cells of row at the columns lo .. hi whose flag in mask is set, in
\* column order (the range is halved to keep the recursion shallow)
RECURSIVE C13_MaskedRange(_, _, _, _)
C13_MaskedRange(row, mask, lo, hi) ==
    IF lo > hi THEN <<>>
    ELSE IF lo = hi THEN (IF lo <= Len(mask) /\ mask[lo] THEN <<row[lo]>> ELSE <<>>)
    ELSE C13_MaskedRange(row, mask, lo, (lo + hi) \div 2)
         \o C13_MaskedRange(row, mask, (lo + hi) \div 2 + 1, hi)

C13_Masked(row, mask) == C13_MaskedRange(row, mask, 1, Len(row))

C13_VisibleSet == {i \in 1..Len(visible_columns) : visible_columns[i]}

\* C13: column masking keeps exactly the cells whose column is visible, in
\* column order; with exactly one visible column c the header line and every
\* displayed row are drawn as the single cell at column c; with no visible
\* column no row is drawn.  Every row of a loaded table has as many cells as
\* the header.
C13_ColumnMasking ==
    csv_header # <<>> =>
        LET visible == C13_VisibleSet
            rows == body_rows
            drawn == rendered_table
        IN  /\ \A k \in 1..Len(csv_data) : Len(csv_data[k]) = Len(csv_header)
            /\ visible = {} => (drawn = None /\ placeholder_shown)
            /\ visible # {} =>
                  drawn = Some(<<C13_Masked(csv_header, visible_columns),
                                 [k \in 1..Len(rows) |->
                                     C13_Masked(rows[k], visible_columns)]>>)
            /\ Cardinality(visible) = 1 =>
                  LET c == CHOOSE i \in visible : TRUE
                  IN  drawn = Some(<< <<csv_header[c]>>,
                                      [k \in 1..Len(rows) |-> <<rows[k][c]>>] >>)

C13_Witness ==
    /\ last_event.name = "ToggleColumn"
    /\ visible_columns = <<TRUE, FALSE>>
    /\ Len(csv_data) = 3
    /\ is_none(selected_row) /\ is_none(search_results)
    /\ rendered_table = Some(<< <<csv_header[1]>>,
                                << <<csv_data[1][1]>>, <<csv_data[2][1]>>,
                                   <<csv_data[3][1]>> >> >>)

\* the ViewState fields of MyApp
ViewState ==
    <<current_page, rows_per_page, search_query, search_header, search_results,
      row_number_input, selected_row, visible_columns, show_column_controls>>

\* C14: only a successful Load changes the table; Save writes the header
\* followed by all data rows in order, whatever the page, the search results,
\* the selection or the hidden columns, and changes no view field.
C14_TableChangesOnlyOnLoad ==
    last_event'.name # "LoadOk" => (csv_header' = csv_header /\ csv_data' = csv_data)

C14_SaveWritesTable ==
    /\ last_event'.name = "Save" =>
          /\ Len(last_event'.out) = Len(csv_data) + 1
          /\ last_event'.out[1] = csv_header
          /\ \A k \in 1..Len(csv_data) : last_event'.out[k + 1] = csv_data[k]
    /\ last_event'.name \in {"Save", "SaveFailed"} => ViewState' = ViewState

C14_TableFrame == [][C14_TableChangesOnlyOnLoad /\ C14_SaveWritesTable]_vars

C14_Witness ==
    /\ last_event.name = "Save"
    /\ current_page = 1
    /\ Len(last_event.out) = Len(csv_data) + 1
    /\ \E i \in 1..Len(visible_columns) : ~visible_columns[i]

\* the first position k >= j with b[k] = x, or Len(b) + 1 when there is none
C15_NextMatch(b, x, j) ==
    IF \E k \in j..Len(b) : b[k] = x
    THEN CHOOSE k \in j..Len(b) : b[k] = x /\ \A m \in j..(k - 1) : b[m] # x
    ELSE Len(b) + 1

\* the position in b after matching a[i], .., a[i + n - 1] greedily from
\* position j on, or a position past Len(b) + 1 when a row finds no match
\* (the range is halved to keep the recursion shallow)
RECURSIVE C15_Advance(_, _, _, _, _)
C15_Advance(a, b, i, j, n) ==
    IF n = 0 THEN j
    ELSE IF n = 1 THEN C15_NextMatch(b, a[i], j) + 1
    ELSE LET half == n \div 2
             mid == C15_Advance(a, b, i, j, half)
         IN  IF mid > Len(b) + 1 THEN mid
             ELSE C15_Advance(a, b, i + half, mid, n - half)

\* a is a subsequence of b: every row of a is matched, in order, within b
C15_IsSubsequence(a, b) == C15_Advance(a, b, 1, 1, Len(a)) <= Len(b) + 1

\* C15: the view never holds rows of a previously loaded file: the search
\* results, when present, are a subsequence (in order) of the current data
\* rows, and the selected row, when present, is the current header or one of
\* the current data rows.
C15_ViewRowsFromCurrentTable ==
    /\ is_some(search_results) => C15_IsSubsequence(unwrap(search_results), csv_data)
    /\ is_some(selected_row) =>
           \/ unwrap(selected_row) = csv_header
           \/ \E k \in 1..Len(csv_data) : unwrap(selected_row) = csv_data[k]

C15_Witness ==
    /\ is_some(search_results)
    /\ Len(unwrap(search_results)) = 1
    /\ Len(csv_data) = 3
    /\ unwrap(search_results)[1] = csv_data[2]

\* C16: the page index changes only in Previous, Next and a successful Load,
\* and in Previous and Next only while neither search results nor a selection
\* is present; Search, Clear Search, Go and the column toggles leave it as it is.
C16_PageChange ==
    /\ current_page' # current_page =>
          /\ last_event'.name \in {"Previous", "Next", "LoadOk"}
          /\ last_event'.name \in {"Previous", "Next"} =>
                (is_none(search_results) /\ is_none(selected_row))
    /\ last_event'.name \in {"Search", "ClearSearch", "Go", "ShowAll", "HideAll",
                             "ToggleColumn", "ToggleColumnControls"}
          => current_page' = current_page

C16_PageChangesOnlyByPaging == [][C16_PageChange]_vars

C16_Witness ==
    /\ last_event.name = "Go"
    /\ GoParsed
    /\ is_none(selected_row)
    /\ current_page = 1
    /\ rows_to_display = <<csv_header, csv_data[Len(csv_data)]>>

====
